---- MODULE Spec2Model ----
(***************************************************************************)
(* A model of pi_file: the SafeFile layer (src/file/src/lib.rs) and the    *)
(* AsyncStore key-value store (src/rt_store/src/lib.rs).                   *)
(*                                                                         *)
(* Three state machines share this module, each leaving the variables of   *)
(* the others untouched:                                                   *)
(*   SpecOpen   SafeFile::open against the global OPEN_FILE_MAP            *)
(*   SpecFile   SafeFile::read / SafeFile::write on one InnerSafeFile      *)
(*   SpecStore  AsyncStore::open / write / remove / read over its LogFile  *)
(* An action is one run of a task between two suspension points (.await);  *)
(* a block that takes a lock and releases it without awaiting is atomic.   *)
(***************************************************************************)
EXTENDS Integers, Sequences, FiniteSets, TLC

\* ------------------------------------------------------------------ bounds
MaxFiles == 3       \* InnerSafeFile values constructed in one behaviour
MaxLen == 2         \* longest read asked for
MaxVer == 3         \* highest buffer version reached without a reset
MaxLog == 3         \* records appended to the log in one behaviour

\* the concurrent callers of each state machine
Tasks == {1, 2, 3}
IoTasks == {1, 2}
StoreTasks == {1, 2}

Paths == {"a", "b"}
Modes == {"ReadWrite", "TruncateWrite"}
FileIds == 1..MaxFiles
NoFile == 0
NoTask == 0
Positions == {0, 1}
Lens == 1..MaxLen
\* the non-empty byte strings a caller passes to write
Datas == {<<1>>, <<2, 3>>}
Keys == {"k1", "k2"}
\* the keys in the order of the BTreeMap
KeyOrder == <<"k1", "k2">>
Values == {"v1", "v2"}
\* Option::None of a value
NoValue == "absent"

VARIABLES
    \* --- SafeFile::open
    OPEN_FILE_MAP,  \* path -> id of the InnerSafeFile its Weak points to, or NoFile
    files,          \* number of InnerSafeFile values constructed so far
    fileLock,       \* id -> the LockType variant it was constructed with
    fileMode,       \* id -> the AsyncFileOptions its raw file was opened with
    filePath,       \* id -> the path its raw file was opened on
    fileBuff,       \* id -> << >>, or <<buff>> with the buff it was constructed with
    opc,            \* task -> position in SafeFile::open
    opath,          \* task -> the path argument of its open
    omode,          \* task -> the options argument of its open
    olock,          \* task -> the LockType built at lines 101-104
    ofile,          \* task -> the Arc<InnerSafeFile> built at line 107
    handle,         \* task -> the SafeFile its open returned (NoFile: none)
    oret,           \* task -> "none" | "ok" | "err": what its last open returned
    \* --- SafeFile::read / SafeFile::write on one InnerSafeFile
    lockType,       \* InnerSafeFile.lock: "Lock" (Mutex) or "Rw" (RwLock)
    buff,           \* InnerSafeFile.buff: [data, ver]
    mutex,          \* holder of the Mutex of LockType::Lock, or NoTask
    rwReaders,      \* holders of a read guard of the RwLock
    rwWriter,       \* holder of the write guard of the RwLock, or NoTask
    disk,           \* the bytes of the raw file
    lastRaw,        \* the bytes of the latest successful raw write
    pc,             \* task -> position in read / write
    call,           \* task -> arguments and locals of its call in progress
    ret,            \* the call that returned last, with what it returned
    \* --- AsyncStore
    log,            \* the records appended to the LogFile, in append order
    map,            \* InnerStore.map: key -> value or NoValue
    removed,        \* StoreOpen.removed
    phase,          \* "open" | "closed" | "loading"
    cursor,         \* the record LogFile::load delivers next (newest first)
    spc,            \* task -> position in write / remove
    srec,           \* task -> the id its append returned
    sret,           \* the store call that returned last
    applied,        \* ids of the records whose effect the map holds
    lastCommit,     \* key -> id of the record of it whose commit completed last
    overlapped,     \* some write / remove began while another was in progress
    fresh,          \* no write / remove began since the map was loaded
    closedMap       \* the map as it was when the store was last closed

openVars == <<OPEN_FILE_MAP, files, fileLock, fileMode, filePath, fileBuff,
              opc, opath, omode, olock, ofile, handle, oret>>

fileVars == <<lockType, buff, mutex, rwReaders, rwWriter, disk, lastRaw,
              pc, call, ret>>

storeVars == <<log, map, removed, phase, cursor, spc, srec, sret,
               applied, lastCommit, overlapped, fresh, closedMap>>

vars == <<openVars, fileVars, storeVars>>

\* ---------------------------------------------------------- SafeFile::open

\* Strong count of an InnerSafeFile: the SafeFile values callers hold, and the
\* Arc a task holds between line 107 and its return.
StrongCount(f) ==
    Cardinality({t \in Tasks : handle[t] = f})
  + Cardinality({t \in Tasks : opc[t] = "install" /\ ofile[t] = f})

\* A plausible slip: an entry is taken as live without upgrading its Weak.
UpgradeUnchecked(f) == f # NoFile

\* Weak::upgrade of a table entry.
Upgrade(f) == f # NoFile /\ StrongCount(f) > 0

\* A plausible slip: the two variants exchanged.
LockTypeOfSwapped(mode) == IF mode = "TruncateWrite" THEN "Rw" ELSE "Lock"

\* lines 101-104
LockTypeOf(mode) == IF mode = "TruncateWrite" THEN "Lock" ELSE "Rw"

OpenIdle ==
    /\ OPEN_FILE_MAP = [p \in Paths |-> NoFile]
    /\ files = 0
    /\ fileLock = [f \in FileIds |-> "none"]
    /\ fileMode = [f \in FileIds |-> "none"]
    /\ filePath = [f \in FileIds |-> "none"]
    /\ fileBuff = [f \in FileIds |-> << >>]
    /\ opc = [t \in Tasks |-> "idle"]
    /\ opath = [t \in Tasks |-> "none"]
    /\ omode = [t \in Tasks |-> "none"]
    /\ olock = [t \in Tasks |-> "none"]
    /\ ofile = [t \in Tasks |-> NoFile]
    /\ handle = [t \in Tasks |-> NoFile]
    /\ oret = [t \in Tasks |-> "none"]

\* lines 88-100: the first look-up under the table lock finds a live entry.
OpenHit(t, p, m) ==
    /\ opc[t] = "idle" /\ handle[t] = NoFile
    /\ Upgrade(OPEN_FILE_MAP[p])
    /\ handle' = [handle EXCEPT ![t] = OPEN_FILE_MAP[p]]
    /\ opath' = [opath EXCEPT ![t] = p]
    /\ omode' = [omode EXCEPT ![t] = m]
    /\ oret' = [oret EXCEPT ![t] = "ok"]
    /\ UNCHANGED <<fileVars, storeVars, OPEN_FILE_MAP, files, fileLock, fileMode, filePath, fileBuff,
                   opc, olock, ofile>>

\* lines 88-106: the look-up misses, the lock is built and the raw open issued.
OpenMiss(t, p, m) ==
    /\ opc[t] = "idle" /\ handle[t] = NoFile
    /\ ~Upgrade(OPEN_FILE_MAP[p])
    /\ opc' = [opc EXCEPT ![t] = "rawopen"]
    /\ opath' = [opath EXCEPT ![t] = p]
    /\ omode' = [omode EXCEPT ![t] = m]
    /\ olock' = [olock EXCEPT ![t] = LockTypeOf(m)]
    /\ oret' = [oret EXCEPT ![t] = "none"]
    /\ UNCHANGED <<fileVars, storeVars, OPEN_FILE_MAP, files, fileLock, fileMode, filePath, fileBuff,
                   ofile, handle>>

\* lines 66-70: the buffer of a new InnerSafeFile: no bytes, version 0.
NewBuff == [data |-> << >>, ver |-> 0]

\* lines 105-107: the raw open succeeds; InnerSafeFile::new (lines 65-72).
RawOpenOk(t) ==
    /\ opc[t] = "rawopen"
    /\ files < MaxFiles
    /\ files' = files + 1
    /\ fileLock' = [fileLock EXCEPT ![files + 1] = olock[t]]
    /\ fileMode' = [fileMode EXCEPT ![files + 1] = omode[t]]
    /\ filePath' = [filePath EXCEPT ![files + 1] = opath[t]]
    /\ fileBuff' = [fileBuff EXCEPT ![files + 1] = <<NewBuff>>]
    /\ ofile' = [ofile EXCEPT ![t] = files + 1]
    /\ opc' = [opc EXCEPT ![t] = "install"]
    /\ UNCHANGED <<fileVars, storeVars, OPEN_FILE_MAP, opath, omode, olock, handle, oret>>

\* A plausible slip: the failing open clears the table entry of its path.
RawOpenErrForgets(t) ==
    /\ opc[t] = "rawopen"
    /\ OPEN_FILE_MAP' = [OPEN_FILE_MAP EXCEPT ![opath[t]] = NoFile]
    /\ opc' = [opc EXCEPT ![t] = "idle"]
    /\ olock' = [olock EXCEPT ![t] = "none"]
    /\ opath' = [opath EXCEPT ![t] = "none"]
    /\ omode' = [omode EXCEPT ![t] = "none"]
    /\ oret' = [oret EXCEPT ![t] = "err"]
    /\ UNCHANGED <<fileVars, storeVars, files, fileLock, fileMode, filePath, fileBuff,
                   ofile, handle>>

\* line 108: the raw open fails and open returns the error.
RawOpenErr(t) ==
    /\ opc[t] = "rawopen"
    /\ opc' = [opc EXCEPT ![t] = "idle"]
    /\ olock' = [olock EXCEPT ![t] = "none"]
    /\ opath' = [opath EXCEPT ![t] = "none"]
    /\ omode' = [omode EXCEPT ![t] = "none"]
    /\ oret' = [oret EXCEPT ![t] = "err"]
    /\ UNCHANGED <<fileVars, storeVars, OPEN_FILE_MAP, files, fileLock, fileMode, filePath, fileBuff,
                   ofile, handle>>

\* A plausible slip: the second look-up installs without upgrading the entry.
InstallNoRecheck(t) ==
    /\ opc[t] = "install"
    /\ OPEN_FILE_MAP' = [OPEN_FILE_MAP EXCEPT ![opath[t]] = ofile[t]]
    /\ handle' = [handle EXCEPT ![t] = ofile[t]]
    /\ opc' = [opc EXCEPT ![t] = "idle"]
    /\ ofile' = [ofile EXCEPT ![t] = NoFile]
    /\ olock' = [olock EXCEPT ![t] = "none"]
    /\ oret' = [oret EXCEPT ![t] = "ok"]
    /\ UNCHANGED <<fileVars, storeVars, files, fileLock, fileMode, filePath, fileBuff,
                   opath, omode>>

\* lines 110-127: the second look-up under the table lock.
Install(t) ==
    /\ opc[t] = "install"
    /\ IF Upgrade(OPEN_FILE_MAP[opath[t]])
         THEN \* lines 113-116: a concurrent opener won; its state is returned
              /\ handle' = [handle EXCEPT ![t] = OPEN_FILE_MAP[opath[t]]]
              /\ UNCHANGED OPEN_FILE_MAP
         ELSE \* lines 117-126: stale or vacant entry; install this one
              /\ OPEN_FILE_MAP' = [OPEN_FILE_MAP EXCEPT ![opath[t]] = ofile[t]]
              /\ handle' = [handle EXCEPT ![t] = ofile[t]]
    /\ opc' = [opc EXCEPT ![t] = "idle"]
    /\ ofile' = [ofile EXCEPT ![t] = NoFile]
    /\ olock' = [olock EXCEPT ![t] = "none"]
    /\ oret' = [oret EXCEPT ![t] = "ok"]
    /\ UNCHANGED <<fileVars, storeVars, files, fileLock, fileMode, filePath, fileBuff,
                   opath, omode>>

\* The caller drops its SafeFile (the Arc's strong count falls by one).
DropHandle(t) ==
    /\ opc[t] = "idle" /\ handle[t] # NoFile
    /\ handle' = [handle EXCEPT ![t] = NoFile]
    /\ opath' = [opath EXCEPT ![t] = "none"]
    /\ omode' = [omode EXCEPT ![t] = "none"]
    /\ oret' = [oret EXCEPT ![t] = "none"]
    /\ UNCHANGED <<fileVars, storeVars, OPEN_FILE_MAP, files, fileLock, fileMode, filePath, fileBuff,
                   opc, olock, ofile>>

NextOpen ==
    \E t \in Tasks :
        \/ \E p \in Paths, m \in Modes : OpenHit(t, p, m)
        \/ \E p \in Paths, m \in Modes : OpenMiss(t, p, m)
        \/ RawOpenOk(t)
        \/ RawOpenErr(t)
        \/ Install(t)
        \/ DropHandle(t)

\* ------------------------------------------ SafeFile::read, SafeFile::write

Min(a, b) == IF a < b THEN a ELSE b

\* bytes [p, p+n) of data (what a raw read of n bytes at p returns)
Slice(data, p, n) == SubSeq(data, p + 1, Min(p + n, Len(data)))

\* data after a raw write of bytes at p (a gap is filled with zeros)
Overlay(data, p, bytes) ==
    [i \in 1..(IF Len(data) > p + Len(bytes) THEN Len(data) ELSE p + Len(bytes)) |->
        IF i > p /\ i <= p + Len(bytes) THEN bytes[i - p]
        ELSE IF i <= Len(data) THEN data[i]
        ELSE 0]

NoCall == [pos |-> 0, len |-> 0, buf |-> << >>, data |-> << >>, ver |-> 0]
NoRet == [op |-> "none", ok |-> TRUE, val |-> << >>, n |-> 0, raw |-> FALSE,
          lock |-> "none"]

\* what read returned: val on success; raw: a raw read was issued
ReadRet(ok, val, raw) ==
    [op |-> "read", ok |-> ok, val |-> val, n |-> 0, raw |-> raw, lock |-> "taken"]

\* what write returned: n on success; raw: a raw write was issued
WriteRet(ok, n, raw) ==
    [op |-> "write", ok |-> ok, val |-> << >>, n |-> n, raw |-> raw, lock |-> "taken"]

\* some task holds the handle's Mutex or a guard of its RwLock
LockHeld == mutex # NoTask \/ rwWriter # NoTask \/ rwReaders # {}

\* what a call returned before the match on the lock variant: it took no
\* lock, which at that moment was held by another task or free
EarlyRet(r) == [r EXCEPT !.lock = IF LockHeld THEN "held" ELSE "free"]

FileIdle ==
    /\ lockType = "Rw"
    /\ buff = [data |-> << >>, ver |-> 0]
    /\ mutex = NoTask
    /\ rwReaders = {}
    /\ rwWriter = NoTask
    /\ disk = << >>
    /\ lastRaw = << >>
    /\ pc = [t \in IoTasks |-> "idle"]
    /\ call = [t \in IoTasks |-> NoCall]
    /\ ret = NoRet

\* InnerSafeFile::new (lines 65-72) with either variant of lines 101-104.
FileNew ==
    /\ lockType \in {"Rw", "Lock"}
    /\ buff = [data |-> << >>, ver |-> 0]
    /\ mutex = NoTask
    /\ rwReaders = {}
    /\ rwWriter = NoTask
    /\ disk = << >>
    /\ lastRaw = << >>
    /\ pc = [t \in IoTasks |-> "idle"]
    /\ call = [t \in IoTasks |-> NoCall]
    /\ ret = NoRet

\* the call of task t returns r
Return(t, r) ==
    /\ pc' = [pc EXCEPT ![t] = "idle"]
    /\ call' = [call EXCEPT ![t] = NoCall]
    /\ ret' = r

\* A plausible slip: the length is tested after the per-file lock is taken.
ReadEmptyLocked(t, p) ==
    /\ pc[t] = "idle" /\ ~LockHeld
    /\ Return(t, EarlyRet(ReadRet(TRUE, << >>, FALSE)))
    /\ UNCHANGED <<openVars, storeVars, lockType, buff, mutex, rwReaders, rwWriter, disk, lastRaw>>

\* lines 131-134: read of no bytes.
ReadEmpty(t, p) ==
    /\ pc[t] = "idle"
    /\ Return(t, EarlyRet(ReadRet(TRUE, << >>, FALSE)))
    /\ UNCHANGED <<openVars, storeVars, lockType, buff, mutex, rwReaders, rwWriter, disk, lastRaw>>

\* lines 163-166: write of no bytes.
WriteEmpty(t, p) ==
    /\ pc[t] = "idle"
    /\ Return(t, EarlyRet(WriteRet(TRUE, 0, FALSE)))
    /\ UNCHANGED <<openVars, storeVars, lockType, buff, mutex, rwReaders, rwWriter, disk, lastRaw>>

\* lines 136-141: LockType::Lock read; the buffer is cloned under the spin
\* lock, then the task waits for the Mutex.
LockReadSnap(t, p, n) ==
    /\ pc[t] = "idle" /\ lockType = "Lock" /\ n > 0
    /\ call' = [call EXCEPT ![t] = [NoCall EXCEPT !.pos = p, !.len = n,
                                       !.data = buff.data, !.ver = buff.ver]]
    /\ pc' = [pc EXCEPT ![t] = "r_wait"]
    /\ UNCHANGED <<openVars, storeVars, lockType, buff, mutex, rwReaders, rwWriter, disk, lastRaw, ret>>

\* line 143: what read returns when the cloned buffer holds bytes.
BufferedRead(data, p, n) == << >>

\* A plausible slip: the read goes on without the Mutex guard.
LockReadLockedNoMutex(t) ==
    /\ pc[t] = "r_wait"
    /\ IF Len(call[t].data) > 0
         THEN Return(t, ReadRet(TRUE,
                        BufferedRead(call[t].data, call[t].pos, call[t].len), FALSE))
         ELSE /\ pc' = [pc EXCEPT ![t] = "r_raw"]
              /\ UNCHANGED <<call, ret>>
    /\ UNCHANGED <<openVars, storeVars, lockType, buff, mutex, rwReaders, rwWriter, disk, lastRaw>>

\* lines 141-145: the Mutex is acquired; either the buffered answer is
\* returned (the guard dropped at once) or the raw read is issued.
LockReadLocked(t) ==
    /\ pc[t] = "r_wait" /\ mutex = NoTask
    /\ IF Len(call[t].data) > 0
         THEN /\ Return(t, ReadRet(TRUE,
                        BufferedRead(call[t].data, call[t].pos, call[t].len), FALSE))
              /\ UNCHANGED mutex
         ELSE /\ mutex' = t
              /\ pc' = [pc EXCEPT ![t] = "r_raw"]
              /\ UNCHANGED <<call, ret>>
    /\ UNCHANGED <<openVars, storeVars, lockType, buff, rwReaders, rwWriter, disk, lastRaw>>

\* lines 145-149: the raw read succeeds.
LockReadRawOk(t) ==
    /\ pc[t] = "r_raw"
    /\ mutex' = NoTask
    /\ Return(t, ReadRet(TRUE, Slice(disk, call[t].pos, call[t].len), TRUE))
    /\ UNCHANGED <<openVars, storeVars, lockType, buff, rwReaders, rwWriter, disk, lastRaw>>

\* A plausible slip: the Mutex guard is not dropped on the error path.
LockReadRawErrKeepsGuard(t) ==
    /\ pc[t] = "r_raw"
    /\ Return(t, ReadRet(FALSE, << >>, TRUE))
    /\ UNCHANGED <<openVars, storeVars, lockType, buff, mutex, rwReaders, rwWriter, disk, lastRaw>>

\* line 150: the raw read fails.
LockReadRawErr(t) ==
    /\ pc[t] = "r_raw"
    /\ mutex' = NoTask
    /\ Return(t, ReadRet(FALSE, << >>, TRUE))
    /\ UNCHANGED <<openVars, storeVars, lockType, buff, rwReaders, rwWriter, disk, lastRaw>>

\* lines 168-175: LockType::Lock write; the bytes are staged and the version
\* incremented under the spin lock, then the task waits for the Mutex.
LockWriteStage(t, p, b) ==
    /\ pc[t] = "idle" /\ lockType = "Lock" /\ Len(b) > 0
    /\ buff.ver < MaxVer
    /\ buff' = [data |-> b, ver |-> buff.ver + 1]
    /\ call' = [call EXCEPT ![t] = [NoCall EXCEPT !.pos = p, !.buf = b]]
    /\ pc' = [pc EXCEPT ![t] = "w_wait"]
    /\ UNCHANGED <<openVars, storeVars, lockType, mutex, rwReaders, rwWriter, disk, lastRaw, ret>>

\* lines 175-183: the Mutex is acquired and the buffer read again; version 0
\* returns at once, any other version issues the raw write of the buffer.
LockWriteLocked(t) ==
    /\ pc[t] = "w_wait" /\ mutex = NoTask
    /\ IF buff.ver = 0
         THEN /\ Return(t, WriteRet(TRUE, Len(buff.data), FALSE))
              /\ UNCHANGED mutex
         ELSE /\ mutex' = t
              /\ call' = [call EXCEPT ![t].data = buff.data, ![t].ver = buff.ver]
              /\ pc' = [pc EXCEPT ![t] = "w_raw"]
              /\ UNCHANGED ret
    /\ UNCHANGED <<openVars, storeVars, lockType, buff, rwReaders, rwWriter, disk, lastRaw>>

\* A plausible slip: the version reset without comparing.
ResetVerAlways(cur, seen) == 0

\* lines 188-190: the version after a flush that saw version `seen`.
ResetVer(cur, seen) == IF cur = seen THEN 0 ELSE cur

\* lines 183-191: the raw write succeeds (it reports every byte written).
LockWriteRawOk(t) ==
    /\ pc[t] = "w_raw"
    /\ disk' = Overlay(disk, call[t].pos, call[t].data)
    /\ lastRaw' = call[t].data
    /\ buff' = [buff EXCEPT !.ver = ResetVer(buff.ver, call[t].ver)]
    /\ mutex' = NoTask
    /\ Return(t, WriteRet(TRUE, Len(call[t].data), TRUE))
    /\ UNCHANGED <<openVars, storeVars, lockType, rwReaders, rwWriter>>

\* A plausible slip: the version is cleared on the error path as well.
LockWriteRawErrResets(t) ==
    /\ pc[t] = "w_raw"
    /\ buff' = [buff EXCEPT !.ver = ResetVer(buff.ver, call[t].ver)]
    /\ mutex' = NoTask
    /\ Return(t, WriteRet(FALSE, 0, TRUE))
    /\ UNCHANGED <<openVars, storeVars, lockType, rwReaders, rwWriter, disk, lastRaw>>

\* line 193: the raw write fails.
LockWriteRawErr(t) ==
    /\ pc[t] = "w_raw"
    /\ mutex' = NoTask
    /\ Return(t, WriteRet(FALSE, 0, TRUE))
    /\ UNCHANGED <<openVars, storeVars, lockType, buff, rwReaders, rwWriter, disk, lastRaw>>

\* line 155: RwLock::read is granted while no write guard is held.
RwCanRead == rwWriter = NoTask

\* A plausible slip: write takes the shared guard (lock.read()).
RwCanWriteShared == rwWriter = NoTask

\* line 198: RwLock::write is granted while no guard at all is held.
RwCanWrite == rwWriter = NoTask /\ rwReaders = {}

\* lines 154-155: LockType::Rw read; the task waits for the shared guard.
RwReadCall(t, p, n) ==
    /\ pc[t] = "idle" /\ lockType = "Rw" /\ n > 0
    /\ call' = [call EXCEPT ![t] = [NoCall EXCEPT !.pos = p, !.len = n]]
    /\ pc' = [pc EXCEPT ![t] = "rr_wait"]
    /\ UNCHANGED <<openVars, storeVars, lockType, buff, mutex, rwReaders, rwWriter, disk, lastRaw, ret>>

\* lines 155-156: the shared guard is granted and the raw read is issued.
RwReadAcquire(t) ==
    /\ pc[t] = "rr_wait"
    /\ RwCanRead
    /\ rwReaders' = rwReaders \cup {t}
    /\ pc' = [pc EXCEPT ![t] = "rr_raw"]
    /\ UNCHANGED <<openVars, storeVars, lockType, buff, mutex, rwWriter, disk, lastRaw, call, ret>>

\* line 156: the raw read returns (its result or its error) and the guard drops.
RwReadDone(t, ok) ==
    /\ pc[t] = "rr_raw"
    /\ rwReaders' = rwReaders \ {t}
    /\ Return(t, ReadRet(ok,
                         IF ok THEN Slice(disk, call[t].pos, call[t].len) ELSE << >>,
                         TRUE))
    /\ UNCHANGED <<openVars, storeVars, lockType, buff, mutex, rwWriter, disk, lastRaw>>

\* lines 197-198: LockType::Rw write; the task waits for the exclusive guard.
RwWriteCall(t, p, b) ==
    /\ pc[t] = "idle" /\ lockType = "Rw" /\ Len(b) > 0
    /\ call' = [call EXCEPT ![t] = [NoCall EXCEPT !.pos = p, !.buf = b]]
    /\ pc' = [pc EXCEPT ![t] = "ww_wait"]
    /\ UNCHANGED <<openVars, storeVars, lockType, buff, mutex, rwReaders, rwWriter, disk, lastRaw, ret>>

\* lines 198-199: the exclusive guard is granted and the raw write is issued.
RwWriteAcquire(t) ==
    /\ pc[t] = "ww_wait"
    /\ RwCanWrite
    /\ rwWriter' = t
    /\ pc' = [pc EXCEPT ![t] = "ww_raw"]
    /\ UNCHANGED <<openVars, storeVars, lockType, buff, mutex, rwReaders, disk, lastRaw, call, ret>>

\* line 199: the raw write returns (its count or its error) and the guard drops.
RwWriteDone(t, ok) ==
    /\ pc[t] = "ww_raw"
    /\ rwWriter' = NoTask
    /\ disk' = IF ok THEN Overlay(disk, call[t].pos, call[t].buf) ELSE disk
    /\ lastRaw' = IF ok THEN call[t].buf ELSE lastRaw
    /\ Return(t, WriteRet(ok, IF ok THEN Len(call[t].buf) ELSE 0, TRUE))
    /\ UNCHANGED <<openVars, storeVars, lockType, buff, mutex, rwReaders>>

NextFile ==
    \E t \in IoTasks :
        \/ \E p \in Positions : ReadEmpty(t, p)
        \/ \E p \in Positions : WriteEmpty(t, p)
        \/ \E p \in Positions, n \in Lens : LockReadSnap(t, p, n)
        \/ LockReadLocked(t)
        \/ LockReadRawOk(t)
        \/ LockReadRawErr(t)
        \/ \E p \in Positions, b \in Datas : LockWriteStage(t, p, b)
        \/ LockWriteLocked(t)
        \/ LockWriteRawOk(t)
        \/ LockWriteRawErr(t)
        \/ \E p \in Positions, n \in Lens : RwReadCall(t, p, n)
        \/ RwReadAcquire(t)
        \/ \E ok \in BOOLEAN : RwReadDone(t, ok)
        \/ \E p \in Positions, b \in Datas : RwWriteCall(t, p, b)
        \/ RwWriteAcquire(t)
        \/ \E ok \in BOOLEAN : RwWriteDone(t, ok)

\* ---------------------------------------------------------------- AsyncStore

\* line 92: the record write appends.
PutRecord(k, v) == [method |-> "PlainAppend", key |-> k, value |-> v, st |-> "pending"]

\* A plausible slip: remove appends with the method of write.
RemoveRecordAsPut(k) == [method |-> "PlainAppend", key |-> k, value |-> "", st |-> "pending"]

\* line 107: the record remove appends (key only, empty value).
RemoveRecord(k) == [method |-> "Remove", key |-> k, value |-> "", st |-> "pending"]

EmptyMap == [k \in Keys |-> NoValue]

\* what a store call returned: prev for read / write / remove (key: the key a
\* read asked for), list for keys / values, n for len
NoSRet == [op |-> "none", ok |-> TRUE, prev |-> NoValue, key |-> "", list |-> << >>, n |-> 0]

\* lines 43-51 with an empty log directory: a store that was just opened.
StoreNew ==
    /\ log = << >>
    /\ map = EmptyMap
    /\ removed = {}
    /\ phase = "open"
    /\ cursor = 0
    /\ spc = [t \in StoreTasks |-> "idle"]
    /\ srec = [t \in StoreTasks |-> 0]
    /\ sret = NoSRet
    /\ applied = {}
    /\ lastCommit = [k \in Keys |-> 0]
    /\ overlapped = FALSE
    /\ fresh = TRUE
    /\ closedMap = EmptyMap

Busy(t) == \E u \in StoreTasks : u # t /\ spc[u] # "idle"

\* lines 89-93: write appends its record and awaits delay_commit.
WriteAppend(t, k, v) ==
    /\ phase = "open" /\ spc[t] = "idle"
    /\ Len(log) < MaxLog
    /\ log' = Append(log, PutRecord(k, v))
    /\ srec' = [srec EXCEPT ![t] = Len(log) + 1]
    /\ spc' = [spc EXCEPT ![t] = "w_commit"]
    /\ overlapped' = (overlapped \/ Busy(t))
    /\ fresh' = FALSE
    /\ UNCHANGED <<openVars, fileVars, map, removed, phase, cursor, sret,
                   applied, lastCommit, closedMap>>

\* lines 107-108: remove appends its record and awaits delay_commit.
RemoveAppend(t, k) ==
    /\ phase = "open" /\ spc[t] = "idle"
    /\ Len(log) < MaxLog
    /\ log' = Append(log, RemoveRecord(k))
    /\ srec' = [srec EXCEPT ![t] = Len(log) + 1]
    /\ spc' = [spc EXCEPT ![t] = "r_commit"]
    /\ overlapped' = (overlapped \/ Busy(t))
    /\ fresh' = FALSE
    /\ UNCHANGED <<openVars, fileVars, map, removed, phase, cursor, sret,
                   applied, lastCommit, closedMap>>

\* LogFile::delay_commit of record i completes with success.
CommitOk(i) ==
    /\ i \in 1..Len(log) /\ log[i].st = "pending"
    /\ log' = [log EXCEPT ![i].st = "committed"]
    /\ lastCommit' = [lastCommit EXCEPT ![log[i].key] = i]
    /\ UNCHANGED <<openVars, fileVars, map, removed, phase, cursor, spc, srec,
                   sret, applied, overlapped, fresh, closedMap>>

\* LogFile::delay_commit of record i completes with an error.
CommitErr(i) ==
    /\ i \in 1..Len(log) /\ log[i].st = "pending"
    /\ log' = [log EXCEPT ![i].st = "failed"]
    /\ UNCHANGED <<openVars, fileVars, map, removed, phase, cursor, spc, srec,
                   sret, applied, lastCommit, overlapped, fresh, closedMap>>

\* A plausible slip: the commit is not awaited.
CommitReturnedEarly(i) == TRUE

\* lines 93, 108: `.await` of delay_commit returns once the commit resolved.
CommitReturned(i) == log[i].st # "pending"

\* A plausible slip: the error of the commit is dropped.
CommitFailedIgnored(i) == FALSE

\* lines 93, 108: `if let Err(e)`.
CommitFailed(i) == log[i].st = "failed"

\* A plausible slip: write keeps the value of a key the map already holds
\* (entry().or_insert in place of insert).
WriteDoneKeepsOld(t) ==
    /\ spc[t] = "w_commit" /\ CommitReturned(srec[t])
    /\ IF CommitFailed(srec[t])
         THEN /\ sret' = [NoSRet EXCEPT !.op = "write", !.ok = FALSE]
              /\ UNCHANGED <<map, applied>>
         ELSE /\ map' = IF map[log[srec[t]].key] = NoValue
                          THEN [map EXCEPT ![log[srec[t]].key] = log[srec[t]].value]
                          ELSE map
              /\ applied' = applied \cup {srec[t]}
              /\ sret' = [NoSRet EXCEPT !.op = "write", !.prev = map[log[srec[t]].key]]
    /\ spc' = [spc EXCEPT ![t] = "idle"]
    /\ srec' = [srec EXCEPT ![t] = 0]
    /\ UNCHANGED <<openVars, fileVars, log, removed, phase, cursor,
                   lastCommit, overlapped, fresh, closedMap>>

\* lines 93-102: write resumes after delay_commit.
WriteDone(t) ==
    /\ spc[t] = "w_commit" /\ CommitReturned(srec[t])
    /\ IF CommitFailed(srec[t])
         THEN /\ sret' = [NoSRet EXCEPT !.op = "write", !.ok = FALSE]
              /\ UNCHANGED <<map, applied>>
         ELSE /\ map' = [map EXCEPT ![log[srec[t]].key] = log[srec[t]].value]
              /\ applied' = applied \cup {srec[t]}
              /\ sret' = [NoSRet EXCEPT !.op = "write", !.prev = map[log[srec[t]].key]]
    /\ spc' = [spc EXCEPT ![t] = "idle"]
    /\ srec' = [srec EXCEPT ![t] = 0]
    /\ UNCHANGED <<openVars, fileVars, log, removed, phase, cursor,
                   lastCommit, overlapped, fresh, closedMap>>

\* A plausible slip: remove looks the key up after it erased it.
RemoveDoneLooksUpLate(t) ==
    /\ spc[t] = "r_commit" /\ CommitReturned(srec[t])
    /\ IF CommitFailed(srec[t])
         THEN /\ sret' = [NoSRet EXCEPT !.op = "remove", !.ok = FALSE]
              /\ UNCHANGED <<map, applied>>
         ELSE /\ map' = [map EXCEPT ![log[srec[t]].key] = NoValue]
              /\ applied' = applied \cup {srec[t]}
              /\ sret' = [NoSRet EXCEPT !.op = "remove", !.prev = map'[log[srec[t]].key]]
    /\ spc' = [spc EXCEPT ![t] = "idle"]
    /\ srec' = [srec EXCEPT ![t] = 0]
    /\ UNCHANGED <<openVars, fileVars, log, removed, phase, cursor,
                   lastCommit, overlapped, fresh, closedMap>>

\* lines 108-116: remove resumes after delay_commit.
RemoveDone(t) ==
    /\ spc[t] = "r_commit" /\ CommitReturned(srec[t])
    /\ IF CommitFailed(srec[t])
         THEN /\ sret' = [NoSRet EXCEPT !.op = "remove", !.ok = FALSE]
              /\ UNCHANGED <<map, applied>>
         ELSE /\ map' = [map EXCEPT ![log[srec[t]].key] = NoValue]
              /\ applied' = applied \cup {srec[t]}
              /\ sret' = [NoSRet EXCEPT !.op = "remove", !.prev = map[log[srec[t]].key]]
    /\ spc' = [spc EXCEPT ![t] = "idle"]
    /\ srec' = [srec EXCEPT ![t] = 0]
    /\ UNCHANGED <<openVars, fileVars, log, removed, phase, cursor,
                   lastCommit, overlapped, fresh, closedMap>>

\* lines 70-75: read.
StoreRead(t, k) ==
    /\ phase = "open" /\ spc[t] = "idle"
    /\ sret' = [NoSRet EXCEPT !.op = "read", !.key = k, !.prev = map[k]]
    /\ UNCHANGED <<openVars, fileVars, log, map, removed, phase, cursor, spc, srec,
                   applied, lastCommit, overlapped, fresh, closedMap>>

\* line 79: BTreeMap::keys, in key order.
MapKeys == SelectSeq(KeyOrder, LAMBDA k : map[k] # NoValue)

\* line 84: BTreeMap::values, in key order.
MapValues == [i \in 1..Len(MapKeys) |-> map[MapKeys[i]]]

\* lines 78-80: keys.
StoreKeys(t) ==
    /\ phase = "open" /\ spc[t] = "idle"
    /\ sret' = [NoSRet EXCEPT !.op = "keys", !.list = MapKeys]
    /\ UNCHANGED <<openVars, fileVars, log, map, removed, phase, cursor, spc, srec,
                   applied, lastCommit, overlapped, fresh, closedMap>>

\* lines 83-85: values.
StoreValues(t) ==
    /\ phase = "open" /\ spc[t] = "idle"
    /\ sret' = [NoSRet EXCEPT !.op = "values", !.list = MapValues]
    /\ UNCHANGED <<openVars, fileVars, log, map, removed, phase, cursor, spc, srec,
                   applied, lastCommit, overlapped, fresh, closedMap>>

\* lines 65-67: len.
StoreLen(t) ==
    /\ phase = "open" /\ spc[t] = "idle"
    /\ sret' = [NoSRet EXCEPT !.op = "len", !.n = Len(MapKeys)]
    /\ UNCHANGED <<openVars, fileVars, log, map, removed, phase, cursor, spc, srec,
                   applied, lastCommit, overlapped, fresh, closedMap>>

\* The last AsyncStore clone is dropped: the map is gone, the log stays.
Close ==
    /\ phase = "open"
    /\ \A t \in StoreTasks : spc[t] = "idle"
    /\ closedMap' = map
    /\ map' = EmptyMap
    /\ applied' = {}
    /\ phase' = "closed"
    /\ sret' = NoSRet
    /\ UNCHANGED <<openVars, fileVars, log, removed, cursor, spc, srec,
                   lastCommit, overlapped, fresh>>

\* lines 41-54: LogFile::open succeeds, an empty InnerStore and StoreOpen are
\* built and LogFile::load starts at the newest record.
OpenLog ==
    /\ phase = "closed"
    /\ phase' = "loading"
    /\ map' = EmptyMap
    /\ removed' = {}
    /\ cursor' = Len(log)
    /\ UNCHANGED <<openVars, fileVars, log, spc, srec, sret, applied,
                   lastCommit, overlapped, fresh, closedMap>>

\* A plausible slip: keys in `removed` are not excluded.
IsRequireNoTombstone(key) == map[key] = NoValue

\* lines 138-145: is_require.
IsRequire(key) == key \notin removed /\ map[key] = NoValue

\* line 148: the value load receives; None for a removal record.
Delivered(rec) == IF rec.method = "Remove" THEN NoValue ELSE rec.value

\* lines 149-159: load.
Load(key, value) ==
    IF value # NoValue
      THEN /\ map' = [map EXCEPT ![key] = value]
           /\ UNCHANGED removed
      ELSE /\ removed' = removed \cup {key}
           /\ UNCHANGED map

\* line 54: LogFile::load visits one committed record: it asks is_require and,
\* on true, calls load; then it moves to the next older record.
LoadStep ==
    /\ phase = "loading" /\ cursor > 0
    /\ IF log[cursor].st = "committed" /\ IsRequire(log[cursor].key)
         THEN /\ Load(log[cursor].key, Delivered(log[cursor]))
              /\ applied' = applied \cup {cursor}
         ELSE UNCHANGED <<map, removed, applied>>
    /\ cursor' = cursor - 1
    /\ UNCHANGED <<openVars, fileVars, log, phase, spc, srec, sret,
                   lastCommit, overlapped, fresh, closedMap>>

\* lines 56-59: load returned Ok; the store is returned, StoreOpen dropped.
LoadDone ==
    /\ phase = "loading" /\ cursor = 0
    /\ phase' = "open"
    /\ removed' = {}
    /\ fresh' = TRUE
    /\ UNCHANGED <<openVars, fileVars, log, map, cursor, spc, srec, sret,
                   applied, lastCommit, overlapped, closedMap>>

\* lines 54-55: load returned Err; open returns it and no store.
LoadErr ==
    /\ phase = "loading"
    /\ phase' = "closed"
    /\ map' = EmptyMap
    /\ removed' = {}
    /\ applied' = {}
    /\ cursor' = 0
    /\ UNCHANGED <<openVars, fileVars, log, spc, srec, sret,
                   lastCommit, overlapped, fresh, closedMap>>

NextStore ==
    \/ \E t \in StoreTasks, k \in Keys, v \in Values : WriteAppend(t, k, v)
    \/ \E t \in StoreTasks, k \in Keys : RemoveAppend(t, k)
    \/ \E i \in 1..MaxLog : CommitOk(i)
    \/ \E i \in 1..MaxLog : CommitErr(i)
    \/ \E t \in StoreTasks : WriteDone(t)
    \/ \E t \in StoreTasks : RemoveDone(t)
    \/ \E t \in StoreTasks, k \in Keys : StoreRead(t, k)
    \/ Close
    \/ OpenLog
    \/ LoadStep
    \/ LoadDone
    \/ LoadErr

InitOpen == OpenIdle /\ FileIdle /\ StoreNew
InitFile == OpenIdle /\ FileNew /\ StoreNew
InitStore == OpenIdle /\ FileIdle /\ StoreNew

SpecOpen == InitOpen /\ [][NextOpen]_vars
SpecFile == InitFile /\ [][NextFile]_vars
SpecStore == InitStore /\ [][NextStore]_vars

\* One caller writes and removes, one call after the other; every holder of
\* the store reads it at any time, also while a write or remove is between
\* its append and its return.
Writers == {1}

NextSequential ==
    \/ \E t \in Writers, k \in Keys, v \in Values : WriteAppend(t, k, v)
    \/ \E t \in Writers, k \in Keys : RemoveAppend(t, k)
    \/ \E i \in 1..MaxLog : CommitOk(i)
    \/ \E i \in 1..MaxLog : CommitErr(i)
    \/ \E t \in Writers : WriteDone(t)
    \/ \E t \in Writers : RemoveDone(t)
    \/ \E t \in StoreTasks, k \in Keys : StoreRead(t, k)
    \/ \E t \in StoreTasks : StoreKeys(t)
    \/ \E t \in StoreTasks : StoreValues(t)
    \/ \E t \in StoreTasks : StoreLen(t)
    \/ Close
    \/ OpenLog
    \/ LoadStep
    \/ LoadDone
    \/ LoadErr

SpecSequential == InitStore /\ [][NextSequential]_vars

\* ------------------------------------------------------------- progress
\* Calls of open, read and write under the scheduling the runtime gives: a
\* raw open or raw I/O call in flight completes, and a task that waits for the
\* table lock, the Mutex or the RwLock is granted it.

\* the callers and arguments of the behaviours checked for progress
ProgressPaths == {"a"}
ProgressModes == {"TruncateWrite"}
ProgressPositions == {0}
ProgressLens == {1}
ProgressDatas == {<<1>>}

\* no caller of SafeFile::open
OpenOff ==
    /\ OPEN_FILE_MAP = [p \in Paths |-> NoFile]
    /\ files = 0
    /\ fileLock = [f \in FileIds |-> "none"]
    /\ fileMode = [f \in FileIds |-> "none"]
    /\ filePath = [f \in FileIds |-> "none"]
    /\ fileBuff = [f \in FileIds |-> << >>]
    /\ opc = [t \in Tasks |-> "off"]
    /\ opath = [t \in Tasks |-> "none"]
    /\ omode = [t \in Tasks |-> "none"]
    /\ olock = [t \in Tasks |-> "none"]
    /\ ofile = [t \in Tasks |-> NoFile]
    /\ handle = [t \in Tasks |-> NoFile]
    /\ oret = [t \in Tasks |-> "none"]

\* no caller of SafeFile::read / SafeFile::write
FileOff ==
    /\ lockType = "Rw"
    /\ buff = NewBuff
    /\ mutex = NoTask
    /\ rwReaders = {}
    /\ rwWriter = NoTask
    /\ disk = << >>
    /\ lastRaw = << >>
    /\ pc = [t \in IoTasks |-> "off"]
    /\ call = [t \in IoTasks |-> NoCall]
    /\ ret = NoRet

\* a behaviour is one of callers of open, or one of callers of read and write
\* on one handle
InitProgress ==
    /\ \/ OpenIdle /\ FileOff
       \/ OpenOff /\ FileNew
    /\ StoreNew

NextProgress ==
    \/ \E t \in Tasks, p \in ProgressPaths, m \in ProgressModes : OpenHit(t, p, m)
    \/ \E t \in Tasks, p \in ProgressPaths, m \in ProgressModes : OpenMiss(t, p, m)
    \/ \E t \in Tasks : RawOpenOk(t)
    \/ \E t \in Tasks : RawOpenErr(t)
    \/ \E t \in Tasks : Install(t)
    \/ \E t \in Tasks : DropHandle(t)
    \/ \E t \in IoTasks, p \in ProgressPositions : ReadEmpty(t, p)
    \/ \E t \in IoTasks, p \in ProgressPositions : WriteEmpty(t, p)
    \/ \E t \in IoTasks, p \in ProgressPositions, n \in ProgressLens : LockReadSnap(t, p, n)
    \/ \E t \in IoTasks : LockReadLocked(t)
    \/ \E t \in IoTasks : LockReadRawOk(t)
    \/ \E t \in IoTasks : LockReadRawErr(t)
    \/ \E t \in IoTasks, p \in ProgressPositions, b \in ProgressDatas : LockWriteStage(t, p, b)
    \/ \E t \in IoTasks : LockWriteLocked(t)
    \/ \E t \in IoTasks : LockWriteRawOk(t)
    \/ \E t \in IoTasks : LockWriteRawErr(t)
    \/ \E t \in IoTasks, p \in ProgressPositions, n \in ProgressLens : RwReadCall(t, p, n)
    \/ \E t \in IoTasks : RwReadAcquire(t)
    \/ \E t \in IoTasks, ok \in BOOLEAN : RwReadDone(t, ok)
    \/ \E t \in IoTasks, p \in ProgressPositions, b \in ProgressDatas : RwWriteCall(t, p, b)
    \/ \E t \in IoTasks : RwWriteAcquire(t)
    \/ \E t \in IoTasks, ok \in BOOLEAN : RwWriteDone(t, ok)

\* a raw open in flight completes; the table lock of the second look-up is
\* granted
FairOpen ==
    \A t \in Tasks :
        /\ WF_vars(RawOpenOk(t) \/ RawOpenErr(t))
        /\ WF_vars(Install(t))

\* a raw read or raw write in flight completes; a task that waits for the
\* Mutex or for a guard of the RwLock is granted it if it is free again and
\* again
FairFile ==
    \A t \in IoTasks :
        /\ SF_vars(LockReadLocked(t))
        /\ SF_vars(LockWriteLocked(t))
        /\ SF_vars(RwReadAcquire(t))
        /\ SF_vars(RwWriteAcquire(t))
        /\ WF_vars(LockReadRawOk(t) \/ LockReadRawErr(t))
        /\ WF_vars(LockWriteRawOk(t) \/ LockWriteRawErr(t))
        /\ WF_vars(\E ok \in BOOLEAN : RwReadDone(t, ok))
        /\ WF_vars(\E ok \in BOOLEAN : RwWriteDone(t, ok))

SpecProgress == InitProgress /\ [][NextProgress]_vars /\ FairOpen /\ FairFile

\* ------------------------------------------------------- claims: SpecOpen

\* C1: all SafeFile values returned for one path and live at the same instant
\* alias one InnerSafeFile: two live handles of one path never differ.
C1_LiveHandlesAlias ==
    \A t1, t2 \in Tasks :
        (handle[t1] # NoFile /\ handle[t2] # NoFile /\ opath[t1] = opath[t2])
            => handle[t1] = handle[t2]

\* Two callers hold the same state of a path on which a second raw open also
\* succeeded and lost the race at the second look-up (its state was discarded).
C1_Witness ==
    \E t1, t2 \in Tasks, f \in FileIds :
        /\ t1 # t2
        /\ handle[t1] # NoFile /\ handle[t1] = handle[t2]
        /\ OPEN_FILE_MAP[opath[t1]] = handle[t1]
        /\ f > handle[t1] /\ f <= files
        /\ filePath[f] = opath[t1]
        /\ \A t \in Tasks : ofile[t] # f

\* C9 as stated: every handle returned by open(path, mode) has the Lock variant
\* iff mode is TruncateWrite, whatever opens of the path came before.
C9_HandleFollowsOwnMode ==
    \A t \in Tasks :
        handle[t] # NoFile => fileLock[handle[t]] = LockTypeOf(omode[t])

\* C9 amended: a state has the Lock variant iff the open that constructed it
\* was TruncateWrite (a handle returned for a live entry carries that state's
\* variant, whatever the mode of its own open), and the variant of a
\* constructed state never changes.
C9_VariantFollowsConstructingMode ==
    /\ [](\A f \in FileIds :
            f <= files => /\ fileLock[f] \in {"Lock", "Rw"}
                          /\ fileLock[f] = "Lock" <=> fileMode[f] = "TruncateWrite")
    /\ [][\A f \in FileIds :
            fileLock[f] # "none" => fileLock'[f] = fileLock[f]]_vars

\* A TruncateWrite open returned the live ReaderWriter state of an earlier open.
C9_Witness ==
    \E t \in Tasks :
        /\ handle[t] # NoFile
        /\ omode[t] = "TruncateWrite"
        /\ fileLock[handle[t]] = "Rw"
        /\ fileMode[handle[t]] = "ReadWrite"

\* C13: the step in which the raw open of a call fails returns the error and
\* no handle, and neither that step nor the look-up that preceded it changes
\* the table, the set of constructed states or any caller's handle.
C13_FailedOpenLeavesRegistry ==
    [][\A t \in Tasks :
          /\ (opc[t] = "idle" /\ opc'[t] = "rawopen") =>
                UNCHANGED <<OPEN_FILE_MAP, files, handle, ofile>>
          /\ (opc[t] = "rawopen" /\ opc'[t] = "idle") =>
                /\ oret'[t] = "err"
                /\ handle'[t] = NoFile /\ ofile'[t] = NoFile
                /\ UNCHANGED <<OPEN_FILE_MAP, files, handle, ofile>>]_vars

\* An open returned the error of its raw open while the table holds a live
\* entry that another caller's handle points to.
C13_Witness ==
    \E t, u \in Tasks :
        /\ t # u
        /\ oret[t] = "err" /\ opc[t] = "idle" /\ handle[t] = NoFile
        /\ handle[u] # NoFile /\ OPEN_FILE_MAP[opath[u]] = handle[u]

\* some caller holds a handle it opened on path p
LivePath(p) == \E u \in Tasks : handle[u] # NoFile /\ opath[u] = p

\* C14: an open that returns a handle while no handle of its path is live
\* (none was ever returned, or all were dropped) has done its own raw open and
\* returns the state it constructed: one no caller ever held, with the empty
\* buffer, version 0 and the variant of this call's mode, which the table
\* entry of the path now points to. An open that returns while a handle of
\* the path is live returns that live state: a stale entry is never returned.
C14_StaleEntryReplaced ==
    [][\A t \in Tasks :
          (handle[t] = NoFile /\ handle'[t] # NoFile) =>
              IF LivePath(opath'[t])
                THEN \E u \in Tasks : /\ handle[u] = handle'[t]
                                      /\ opath[u] = opath'[t]
                ELSE /\ opc[t] = "install"
                     /\ handle'[t] = ofile[t]
                     /\ OPEN_FILE_MAP[opath'[t]] # ofile[t]
                     /\ OPEN_FILE_MAP'[opath'[t]] = ofile[t]
                     /\ \A u \in Tasks : handle[u] # ofile[t]
                     /\ \A q \in Paths : OPEN_FILE_MAP[q] # ofile[t]
                     /\ filePath[ofile[t]] = opath'[t]
                     /\ fileBuff[ofile[t]] = <<NewBuff>>
                     /\ fileLock[ofile[t]] = LockTypeOf(omode[t])]_vars

\* The first state of a path was returned and dropped by every caller; a later
\* open of the path in the other mode constructed a second state, which the
\* table entry now points to and the caller holds.
C14_Witness ==
    \E t \in Tasks :
        /\ handle[t] = 2 /\ OPEN_FILE_MAP[opath[t]] = 2
        /\ filePath[1] = opath[t] /\ filePath[2] = opath[t]
        /\ fileMode[1] # fileMode[2]
        /\ \A u \in Tasks : handle[u] # 1 /\ ofile[u] # 1

\* ------------------------------------------------------- claims: SpecFile

\* C7: on a Lock handle the version goes from non-zero to 0 only in the step
\* that completes a raw write which saw that same version before it started,
\* and then the buffer holds exactly the bytes that raw write wrote: the
\* completion of W1 never clears the version over bytes W2 staged meanwhile.
C7_CompareAndReset ==
    [][(buff.ver # 0 /\ buff'.ver = 0) =>
          \E t \in IoTasks :
              /\ pc[t] = "w_raw" /\ pc'[t] = "idle"
              /\ call[t].ver = buff.ver
              /\ buff'.data = call[t].data
              /\ lastRaw' = buff'.data]_vars

\* The flush of W1 returned success and left the version set, because W2 staged
\* other bytes while it was in flight; W2 still waits for the Mutex.
C7_Witness ==
    /\ lockType = "Lock"
    /\ ret.op = "write" /\ ret.ok /\ ret.raw
    /\ buff.ver # 0
    /\ lastRaw # buff.data
    /\ \E t \in IoTasks : pc[t] = "w_wait" /\ call[t].buf = buff.data

\* C8 as stated: a Lock read of len > 0 that saw a staged, unflushed write
\* (version # 0) returns the staged bytes of [pos, pos+len), with no raw read.
C8_PendingReadReturnsStagedRange ==
    [][\A t \in IoTasks :
          (pc[t] = "r_wait" /\ pc'[t] = "idle" /\ call[t].ver # 0) =>
              /\ ret'.op = "read" /\ ret'.ok /\ ~ret'.raw
              /\ ret'.val = Slice(call[t].data, call[t].pos, call[t].len)]_vars

\* C10: on an Rw handle a raw write is never in flight together with another
\* raw write or with a raw read.
C10_WriterExcludesAll ==
    lockType = "Rw" =>
        \A t, u \in IoTasks :
            (t # u /\ pc[t] = "ww_raw") => pc[u] \notin {"rr_raw", "ww_raw"}

\* Two raw reads are in flight together on an Rw handle that was written before.
C10_Witness ==
    /\ lockType = "Rw"
    /\ lastRaw # << >>
    /\ \E t, u \in IoTasks : t # u /\ pc[t] = "rr_raw" /\ pc[u] = "rr_raw"

\* C11: on a Lock handle at most one raw operation, read or write, is in
\* flight at any instant, and the task whose raw read or raw write is in
\* flight holds the handle's Mutex for as long as it is in flight.
C11_ExclusiveSerializesRawIo ==
    lockType = "Lock" =>
        /\ \A t \in IoTasks : pc[t] \in {"r_raw", "w_raw"} => mutex = t
        /\ \A t, u \in IoTasks :
              (t # u /\ pc[t] \in {"r_raw", "w_raw"}) => pc[u] \notin {"r_raw", "w_raw"}

\* A raw read is in flight under the Mutex while a write that staged its bytes
\* after the read cloned the empty buffer waits for the Mutex.
C11_Witness ==
    /\ lockType = "Lock"
    /\ \E t, u \in IoTasks :
          /\ pc[t] = "r_raw" /\ mutex = t
          /\ pc[u] = "w_wait" /\ buff.data = call[u].buf

\* C12: read(pos, 0) and write(pos, empty) can return at once whatever the
\* state of the per-file lock, on either variant; they return the empty
\* vector and Ok(0), issue no raw I/O, take no guard, and leave the buffer, its
\* version, the locks, the file and every other call as they were.
C12_ZeroLengthNoOps ==
    /\ [](\A t \in IoTasks, p \in Positions :
            pc[t] = "idle" => ENABLED ReadEmpty(t, p) /\ ENABLED WriteEmpty(t, p))
    /\ [][(ret' # ret /\ ret'.lock \in {"free", "held"}) =>
            /\ ret'.ok /\ ret'.val = << >> /\ ret'.n = 0 /\ ~ret'.raw
            /\ ret'.lock = "held" <=> LockHeld
            /\ UNCHANGED <<lockType, buff, mutex, rwReaders, rwWriter, disk, lastRaw, pc, call>>]_vars

\* An empty write returned while another task held the Mutex of a Lock handle
\* with staged bytes, and that task's raw write is still in flight.
C12_Witness ==
    /\ lockType = "Lock"
    /\ ret.op = "write" /\ ret.lock = "held" /\ ret.n = 0
    /\ buff.ver # 0
    /\ \E t \in IoTasks : mutex = t /\ pc[t] = "w_raw"

\* C17 as stated: a Lock read of len > 0 that cloned the buffer at version 0
\* and gets the Mutex while the version is still 0 (nothing staged, or the
\* staged bytes flushed and the version cleared) issues the raw read under the
\* Mutex, and returns what the raw read returns.
C17_IdleReadIsRaw ==
    [][\A t \in IoTasks :
          /\ (pc[t] = "r_wait" /\ pc'[t] # "r_wait" /\ call[t].ver = 0 /\ buff.ver = 0) =>
                pc'[t] = "r_raw" /\ mutex' = t
          /\ (pc[t] = "r_raw" /\ pc'[t] = "idle") =>
                /\ ret'.op = "read" /\ ret'.raw
                /\ ret'.ok => ret'.val = Slice(disk, call[t].pos, call[t].len)]_vars

\* C18: on a Lock handle, whenever bytes have been staged and the version is
\* 0, the bytes of the latest successful raw write are the bytes the buffer
\* holds; so a write that returns at once on version 0 finds the buffer's
\* bytes, its own or newer ones, already written.
C18_VersionZeroMeansWritten ==
    /\ [](lockType = "Lock" /\ buff.data # << >> /\ buff.ver = 0 => lastRaw = buff.data)
    /\ [][\A t \in IoTasks :
            (pc[t] = "w_wait" /\ pc'[t] = "idle") =>
                /\ buff.ver = 0 /\ lastRaw = buff.data
                /\ ret'.ok /\ ~ret'.raw]_vars

\* A write returned at once on version 0: the flush of another task had written
\* the bytes this write staged, which the buffer still holds.
C18_Witness ==
    /\ lockType = "Lock"
    /\ ret.op = "write" /\ ret.ok /\ ~ret.raw /\ ret.lock = "taken"
    /\ buff.ver = 0 /\ buff.data # << >> /\ lastRaw = buff.data

\* C20 as stated: every Lock write that returns success reports the length of
\* the bytes the caller passed, whether it flushed or returned on version 0.
C20_ReportsOwnLength ==
    [][\A t \in IoTasks :
          (pc[t] \in {"w_wait", "w_raw"} /\ pc'[t] = "idle" /\ ret'.ok) =>
              ret'.n = Len(call[t].buf)]_vars

\* --------------------------------------------------- claims: SpecProgress

\* C19: under the fair scheduling of SpecProgress every call of open, read and
\* write that has begun returns, whatever the other callers do: no call waits
\* for ever for the table lock, the Mutex, the RwLock, a raw open or raw I/O.
C19_EveryCallReturns ==
    /\ \A t \in Tasks : (opc[t] \in {"rawopen", "install"}) ~> (opc[t] = "idle")
    /\ \A t \in IoTasks :
          (pc[t] \in {"r_wait", "r_raw", "w_wait", "w_raw",
                      "rr_wait", "rr_raw", "ww_wait", "ww_raw"}) ~> (pc[t] = "idle")

\* A write that staged its bytes waits for the Mutex, which the other task
\* holds while its raw write of an earlier version is in flight.
C19_Witness ==
    /\ lockType = "Lock"
    /\ \E t, u \in IoTasks :
          /\ pc[t] = "w_wait"
          /\ pc[u] = "w_raw" /\ mutex = u
          /\ call[u].ver < buff.ver

\* ------------------------------------------------------ claims: SpecStore

AllIdle == \A t \in StoreTasks : spc[t] = "idle"
NoFailure == \A i \in 1..Len(log) : log[i].st # "failed"

\* C2: log before memory: every record whose effect the map holds had its
\* commit complete with success before, and every value of the map is the value
\* of such a committed Put, so no read sees a value whose commit is pending.
C2_LogBeforeMemory ==
    /\ \A i \in applied : i \in 1..Len(log) /\ log[i].st = "committed"
    /\ \A k \in Keys :
          map[k] # NoValue =>
              \E i \in applied : /\ log[i].method = "PlainAppend"
                                 /\ log[i].key = k /\ log[i].value = map[k]
    /\ (sret.op = "read" /\ sret.prev # NoValue) =>
          \E i \in 1..Len(log) : /\ log[i].st = "committed"
                                 /\ log[i].method = "PlainAppend"
                                 /\ log[i].value = sret.prev

\* A write returned and its value is in the map while the write of another
\* value to the same key has been appended and its commit is still pending.
C2_Witness ==
    \E t \in StoreTasks :
        /\ spc[t] = "w_commit" /\ log[srec[t]].st = "pending"
        /\ map[log[srec[t]].key] \notin {NoValue, log[srec[t]].value}
        /\ sret.op = "read" /\ sret.prev = map[log[srec[t]].key]

\* C3: the step in which a write or remove whose commit failed returns leaves
\* the map as it is and returns the error, and that call's record is never
\* among those the map holds.
C3_FailedCommitLeavesMap ==
    [][\A t \in StoreTasks :
          (spc[t] # "idle" /\ log[srec[t]].st = "failed" /\ spc'[t] = "idle") =>
              /\ map' = map
              /\ ~sret'.ok
              /\ srec[t] \notin applied']_vars

\* A remove of a present key returned the error of its commit; the key stays.
C3_Witness ==
    /\ sret.op = "remove" /\ ~sret.ok
    /\ AllIdle
    /\ \E i \in 1..Len(log) :
          /\ log[i].st = "failed" /\ log[i].method = "Remove"
          /\ map[log[i].key] # NoValue

\* the newest committed record of key k (0: none)
Newest(k) ==
    LET ids == {i \in 1..Len(log) : log[i].st = "committed" /\ log[i].key = k}
    IN  IF ids = {} THEN 0 ELSE CHOOSE i \in ids : \A j \in ids : j <= i

\* the state of a key that a record stands for
StateOf(i) ==
    IF i = 0 THEN NoValue
    ELSE IF log[i].method = "Remove" THEN NoValue ELSE log[i].value

\* C4: when open returns, the map holds for every key the value of its newest
\* record if that is a Put, and nothing if it is a Remove (or there is none).
C4_ReplayNewestWins ==
    (phase = "open" /\ fresh) => \A k \in Keys : map[k] = StateOf(Newest(k))

\* A store was loaded from a log in which a tombstone is the newest record of
\* a key that has an older Put, and the Put of another key was loaded.
C4_Witness ==
    /\ phase = "open" /\ fresh /\ NoFailure
    /\ \E i, j \in 1..Len(log) :
          /\ i < j /\ log[i].key = log[j].key /\ Newest(log[j].key) = j
          /\ log[i].method = "PlainAppend" /\ log[j].method = "Remove"
    /\ \E k \in Keys : map[k] # NoValue

\* C5: after calls that did not overlap and all committed, a store that is
\* closed and opened again holds the map it held before the close.
C5_ReopenRoundTrip ==
    (phase = "open" /\ fresh /\ ~overlapped /\ NoFailure) => map = closedMap

\* write(K1,V1), write(K2,V2), remove(K1), close, reopen.
C5_Witness ==
    /\ phase = "open" /\ fresh /\ ~overlapped /\ NoFailure
    /\ Len(log) = 3
    /\ log[1].method = "PlainAppend" /\ log[3].method = "Remove"
    /\ log[1].key = log[3].key
    /\ log[2].method = "PlainAppend" /\ log[2].key # log[1].key
    /\ map[log[1].key] = NoValue
    /\ map[log[2].key] = log[2].value

\* no write or remove of key k is between its append and its return
Settled(k) == \A t \in StoreTasks : spc[t] # "idle" => log[srec[t]].key # k

\* ------------------------------------------------- claims: SpecSequential

\* C15: read, keys, values and len return what the map holds and leave the
\* map and the log as they are; and when calls did not overlap and no write or
\* remove of K is in progress, read(K) returns the value of the last
\* successful write of K, or absent when the last successful call on K was a
\* remove or there was none.
C15_SequentialReadYourWrites ==
    [][(sret' # sret /\ sret'.op \in {"read", "keys", "values", "len"}) =>
          /\ UNCHANGED <<map, log>>
          /\ sret'.ok
          /\ sret'.op = "read" =>
                /\ sret'.prev = map[sret'.key]
                /\ (~overlapped /\ Settled(sret'.key)) =>
                      sret'.prev = StateOf(Newest(sret'.key))
          /\ sret'.op = "keys" => sret'.list = MapKeys
          /\ sret'.op = "values" => sret'.list = MapValues
          /\ sret'.op = "len" => sret'.n = Cardinality({k \in Keys : map[k] # NoValue})]_vars

\* write(K,V1), write(K,V2) and remove(K) ran one after the other on one
\* store, each committed, and the read(K) that followed returned absent.
C15_Witness ==
    /\ phase = "open" /\ ~fresh /\ ~overlapped /\ NoFailure /\ AllIdle
    /\ Len(log) = 3 /\ applied = {1, 2, 3}
    /\ log[1].method = "PlainAppend" /\ log[2].method = "PlainAppend"
    /\ log[1].value # log[2].value
    /\ log[3].method = "Remove"
    /\ log[1].key = log[2].key /\ log[2].key = log[3].key
    /\ sret.op = "read" /\ sret.key = log[3].key /\ sret.prev = NoValue

\* ------------------------------------------------------ claims: SpecStore

\* C16: the step in which a write or remove returns success returns the value
\* the map held for the key before that step (absent when it held none) and,
\* in the same step, inserts the written value or erases the key; a remove of
\* a key the map does not hold leaves the map as it is.
C16_ReturnsPriorValue ==
    [][\A t \in StoreTasks :
          (spc[t] # "idle" /\ spc'[t] = "idle" /\ sret'.ok) =>
              LET k == log[srec[t]].key IN
              /\ sret'.prev = map[k]
              /\ spc[t] = "w_commit" =>
                    /\ sret'.op = "write"
                    /\ map' = [map EXCEPT ![k] = log[srec[t]].value]
              /\ spc[t] = "r_commit" =>
                    /\ sret'.op = "remove"
                    /\ map' = [map EXCEPT ![k] = NoValue]
                    /\ map[k] = NoValue => map' = map]_vars

\* A remove returned the value of an earlier committed write of its key, and
\* the map no longer holds the key.
C16_Witness ==
    /\ phase = "open" /\ AllIdle
    /\ sret.op = "remove" /\ sret.ok /\ sret.prev # NoValue
    /\ \E i, j \in applied :
          /\ i < j /\ log[i].key = log[j].key
          /\ log[i].method = "PlainAppend" /\ log[i].value = sret.prev
          /\ log[j].method = "Remove" /\ Len(log) = j
          /\ map[log[j].key] = NoValue

\* C6 as stated: once every call has returned, the state of the map for K is
\* that of the record of K whose commit completed last.
C6_MapFollowsCommitOrder ==
    (phase = "open" /\ AllIdle /\ ~fresh /\ NoFailure) =>
        \A k \in Keys : map[k] = StateOf(lastCommit[k])

====
